---- MODULE Spec2Model ----
(***************************************************************************)
(* The VRT (VITA-49) packet codec of src/types/packet.rs:                  *)
(* VrtPacket::parse (bytes -> packet) and VrtPacket::serialize             *)
(* (packet -> bytes).                                                      *)
(*                                                                         *)
(* Byte slices (&[u8]) are held run-length encoded: a slice is a sequence  *)
(* of runs [n |-> count, b |-> byte] with no empty run and no two adjacent *)
(* runs of the same byte, so that equal slices are equal values and a      *)
(* payload of 262 144 bytes is a value of a few runs.                      *)
(*                                                                         *)
(* usize values that wrapped below zero are held as the negative number    *)
(* v - 2^64 (their two's complement reading); IsHuge tells them apart.     *)
(* u64 values are held as their two 32-bit halves [hi, lo].                *)
(***************************************************************************)
EXTENDS Integers, Sequences, FiniteSets, TLC

VARIABLES pc, packet, old_packet, buffer, ser_ret, input, parse_ret

vars == <<pc, packet, old_packet, buffer, ser_ret, input, parse_ret>>

\* ------------------------------------------------------------------ bounds
MaxPayload == 4
MaxSlack == 2
MaxWords == 8
MaxIn == 36

\* ------------------------------------------------------- program constants
SizeOfU32 == 4
SizeOfU64 == 8
ClassIdSize == 8
HeaderSize == 4
TrailerSize == 4
U16Max == 65535

\* ------------------------------------------------------------- byte slices
Run(n, b) == [n |-> n, b |-> b]

RECURSIVE BLen(_)
BLen(s) == IF s = <<>> THEN 0 ELSE Head(s).n + BLen(Tail(s))

Cat(a, b) ==
    IF a = <<>> THEN b
    ELSE IF b = <<>> THEN a
    ELSE LET x == a[Len(a)]
             y == b[1]
         IN  IF x.b = y.b
             THEN SubSeq(a, 1, Len(a) - 1) \o <<Run(x.n + y.n, x.b)>> \o Tail(b)
             ELSE a \o b

RECURSIVE Take(_, _)
Take(s, k) ==
    IF k <= 0 \/ s = <<>> THEN <<>>
    ELSE IF Head(s).n >= k THEN <<Run(k, Head(s).b)>>
    ELSE <<Head(s)>> \o Take(Tail(s), k - Head(s).n)

RECURSIVE Drop(_, _)
Drop(s, k) ==
    IF k <= 0 \/ s = <<>> THEN s
    ELSE IF Head(s).n > k THEN <<Run(Head(s).n - k, Head(s).b)>> \o Tail(s)
    ELSE Drop(Tail(s), k - Head(s).n)

\* s[from..to]
Slice(s, from, to) == Take(Drop(s, from), to - from)

RECURSIVE FromSeq(_)
FromSeq(q) == IF q = <<>> THEN <<>> ELSE Cat(<<Run(1, Head(q))>>, FromSeq(Tail(q)))

RECURSIVE ToSeq(_)
ToSeq(s) ==
    IF s = <<>> THEN <<>>
    ELSE [k \in 1..Head(s).n |-> Head(s).b] \o ToSeq(Tail(s))

Fill(n, b) == IF n <= 0 THEN <<>> ELSE <<Run(n, b)>>

\* ------------------------------------------------------------ Option, Result
None == [some |-> FALSE]
Some(v) == [some |-> TRUE, val |-> v]

Running == [kind |-> "Running"]
Panic == [kind |-> "Panic"]
Ok(n) == [kind |-> "Ok", n |-> n]
Err(e) == [kind |-> "Err", error |-> e]

\* Err::Incomplete(Needed::new(n)); Needed::new(0) is Needed::Unknown, held as 0
Incomplete(n) == [kind |-> "Incomplete", needed |-> n]

\* ------------------------------------------------------------- big-endian
to_le_bytes_u32(v) ==
    <<v % 256, (v \div 256) % 256, (v \div 65536) % 256, v \div 16777216>>

to_be_bytes_u32(v) ==
    <<v \div 16777216, (v \div 65536) % 256, (v \div 256) % 256, v % 256>>

to_be_bytes_u64(v) == to_be_bytes_u32(v.hi) \o to_be_bytes_u32(v.lo)

from_be_bytes_u32(b) == b[1] * 16777216 + b[2] * 65536 + b[3] * 256 + b[4]

\* nom::number::streaming::be_u32
be_u32(i) ==
    IF BLen(i) < SizeOfU32 THEN Incomplete(SizeOfU32 - BLen(i))
    ELSE [kind |-> "Ok", rest |-> Drop(i, SizeOfU32),
          val |-> from_be_bytes_u32(ToSeq(Take(i, SizeOfU32)))]

\* nom::number::streaming::be_u64
be_u64(i) ==
    IF BLen(i) < SizeOfU64 THEN Incomplete(SizeOfU64 - BLen(i))
    ELSE [kind |-> "Ok", rest |-> Drop(i, SizeOfU64),
          val |-> [hi |-> from_be_bytes_u32(ToSeq(Take(i, SizeOfU32))),
                   lo |-> from_be_bytes_u32(ToSeq(Slice(i, SizeOfU32, SizeOfU64)))]]

\* ------------------------------------------------- collaborators: Header
PktTypes == {"IfData", "IfDataWithStream", "ExtData", "ExtDataWithStream",
             "Context", "ExtContext"}
TsiKinds == {"None", "Utc", "Gps", "Other"}
TsfKinds == {"None", "SampleCount", "RealTime", "FreeRunning"}

PktTypeCode(t) ==
    CASE t = "IfData" -> 0
      [] t = "IfDataWithStream" -> 1
      [] t = "ExtData" -> 2
      [] t = "ExtDataWithStream" -> 3
      [] t = "Context" -> 4
      [] t = "ExtContext" -> 5

TsiCode(k) ==
    CASE k = "None" -> 0 [] k = "Utc" -> 1 [] k = "Gps" -> 2 [] k = "Other" -> 3

TsfCode(k) ==
    CASE k = "None" -> 0 [] k = "SampleCount" -> 1
      [] k = "RealTime" -> 2 [] k = "FreeRunning" -> 3

DefaultHeader ==
    [packet_type |-> "IfData", c |-> FALSE, t |-> FALSE,
     tsi |-> "None", tsf |-> "None", packet_size |-> 0]

\* the header word: type(4) c(1) t(1) rsvd(2) | tsi(2) tsf(2) count(4) | size(16)
HeaderBytes(h) ==
    <<PktTypeCode(h.packet_type) * 16 + (IF h.c THEN 8 ELSE 0) + (IF h.t THEN 4 ELSE 0),
      TsiCode(h.tsi) * 64 + TsfCode(h.tsf) * 16,
      h.packet_size \div 256,
      h.packet_size % 256>>

\* Header::serialize(&self, buf) -> Result<usize, Error>
Header_serialize(h, buf) ==
    IF BLen(buf) < HeaderSize
    THEN [ret |-> Err("BufferFull"), buf |-> buf]
    ELSE [ret |-> Ok(HeaderSize),
          buf |-> Cat(FromSeq(HeaderBytes(h)), Drop(buf, HeaderSize))]

\* Header::parse(i) -> IResult<&[u8], Header>
Header_parse(i) ==
    IF BLen(i) < HeaderSize THEN Incomplete(HeaderSize - BLen(i))
    ELSE LET b == ToSeq(Take(i, HeaderSize))
             code == b[1] \div 16
         IN  IF \A t \in PktTypes : PktTypeCode(t) # code
             THEN Err("Malformed")
             ELSE [kind |-> "Ok", rest |-> Drop(i, HeaderSize),
                   val |-> [packet_type |-> CHOOSE t \in PktTypes : PktTypeCode(t) = code,
                            c |-> (b[1] \div 8) % 2 = 1,
                            t |-> (b[1] \div 4) % 2 = 1,
                            tsi |-> CHOOSE k \in TsiKinds : TsiCode(k) = b[2] \div 64,
                            tsf |-> CHOOSE k \in TsfKinds : TsfCode(k) = (b[2] \div 16) % 4,
                            packet_size |-> b[3] * 256 + b[4]]]

\* ------------------------------------------------ collaborators: ClassId
\* the class identifier: rsvd(8) oui(24) | information class(16) packet class(16)
ClassIdBytes(c) ==
    <<0, c.oui \div 65536, (c.oui \div 256) % 256, c.oui % 256,
      c.information_class_code \div 256, c.information_class_code % 256,
      c.packet_class_code \div 256, c.packet_class_code % 256>>

\* ClassId::serialize(&self, buf) -> Result<usize, Error>
ClassId_serialize(c, buf) ==
    IF BLen(buf) < ClassIdSize
    THEN [ret |-> Err("BufferFull"), buf |-> buf]
    ELSE [ret |-> Ok(ClassIdSize),
          buf |-> Cat(FromSeq(ClassIdBytes(c)), Drop(buf, ClassIdSize))]

\* ClassId::parse(i) -> IResult<&[u8], ClassId>
ClassId_parse(i) ==
    IF BLen(i) < ClassIdSize THEN Incomplete(ClassIdSize - BLen(i))
    ELSE LET b == ToSeq(Take(i, ClassIdSize))
         IN  [kind |-> "Ok", rest |-> Drop(i, ClassIdSize),
              val |-> [oui |-> b[2] * 65536 + b[3] * 256 + b[4],
                       information_class_code |-> b[5] * 256 + b[6],
                       packet_class_code |-> b[7] * 256 + b[8]]]

\* ------------------------------------------------ collaborators: Trailer
\* Trailer::serialize(&self, buf) -> Result<usize, Error>
Trailer_serialize(t, buf) ==
    IF BLen(buf) < TrailerSize
    THEN [ret |-> Err("BufferFull"), buf |-> buf]
    ELSE [ret |-> Ok(TrailerSize),
          buf |-> Cat(FromSeq(to_be_bytes_u32(t.word)), Drop(buf, TrailerSize))]

\* Trailer::parse(i) -> IResult<&[u8], Trailer>
Trailer_parse(i) ==
    LET r == be_u32(i)
    IN  IF r.kind = "Ok"
        THEN [kind |-> "Ok", rest |-> r.rest, val |-> [word |-> r.val]]
        ELSE r

\* --------------------------------------------------------------- VrtPacket
DefaultPacket ==
    [header |-> DefaultHeader, stream_id |-> None, class_id |-> None,
     tsi |-> None, tsf |-> None, payload |-> <<>>, trailer |-> None]

\* ---------------------------------------------------- VrtPacket::serialize
\* &mut buffer[offset..]: the slice, or a panic when offset is past the end
IndexFrom(buf, offset) ==
    IF offset > BLen(buf) THEN [panic |-> TRUE, buf |-> <<>>]
    ELSE [panic |-> FALSE, buf |-> Drop(buf, offset)]

\* buffer[from..to].copy_from_slice(src)
CopyFromSlice(buf, from, to, src) ==
    IF from > to \/ to > BLen(buf) \/ to - from # BLen(src)
    THEN [panic |-> TRUE, buf |-> buf]
    ELSE [panic |-> FALSE, buf |-> Cat(Cat(Take(buf, from), src), Drop(buf, to))]

\* offset += x.serialize(&mut buffer[offset..])?  with r the callee's result
AddSerialized(s, sub, r) ==
    IF sub.panic THEN [s EXCEPT !.out = Panic]
    ELSE IF r.ret.kind # "Ok" THEN [s EXCEPT !.out = r.ret]
    ELSE [s EXCEPT !.buffer = Cat(Take(s.buffer, s.offset), r.buf),
                   !.offset = s.offset + r.ret.n]

\* the copy without the capacity check before it
UncheckedCopy(s, n, src) ==
    LET w == CopyFromSlice(s.buffer, s.offset, s.offset + n, src)
    IN  IF w.panic THEN [s EXCEPT !.out = Panic]
        ELSE [s EXCEPT !.buffer = w.buf, !.offset = s.offset + n]

\* if buffer.len() < offset + n { return Err(BufferFull) }; copy; offset += n
CheckedCopy(s, n, src) ==
    IF BLen(s.buffer) < s.offset + n THEN [s EXCEPT !.out = Err("BufferFull")]
    ELSE LET w == CopyFromSlice(s.buffer, s.offset, s.offset + n, src)
         IN  IF w.panic THEN [s EXCEPT !.out = Panic]
             ELSE [s EXCEPT !.buffer = w.buf, !.offset = s.offset + n]

SerHeader(self, s) ==
    IF s.out # Running THEN s
    ELSE LET sub == IndexFrom(s.buffer, s.offset)
         IN  AddSerialized(s, sub, Header_serialize(self.header, sub.buf))

SerStreamId(self, s) ==
    IF s.out # Running \/ ~self.stream_id.some THEN s
    ELSE CheckedCopy(s, SizeOfU32, FromSeq(to_be_bytes_u32(self.stream_id.val)))

SerClassId(self, s) ==
    IF s.out # Running \/ ~self.class_id.some THEN s
    ELSE LET sub == IndexFrom(s.buffer, s.offset)
         IN  AddSerialized(s, sub, ClassId_serialize(self.class_id.val, sub.buf))

SerTsi(self, s) ==
    IF s.out # Running \/ ~self.tsi.some THEN s
    ELSE CheckedCopy(s, SizeOfU32, FromSeq(to_be_bytes_u32(self.tsi.val)))

SerTsf(self, s) ==
    IF s.out # Running \/ ~self.tsf.some THEN s
    ELSE CheckedCopy(s, SizeOfU64, FromSeq(to_be_bytes_u64(self.tsf.val)))

SerPayload(self, s) ==
    IF s.out # Running THEN s
    ELSE CheckedCopy(s, BLen(self.payload), self.payload)

SerTrailer(self, s) ==
    IF s.out # Running \/ ~self.trailer.some THEN s
    ELSE LET sub == IndexFrom(s.buffer, s.offset)
         IN  AddSerialized(s, sub, Trailer_serialize(self.trailer.val, sub.buf))

\* usize -> u16, truncating (an `as` cast)
AsU16(n) == [ok |-> TRUE, val |-> n % (U16Max + 1)]

\* (usize).try_into(): u16
TryIntoU16(n) ==
    IF n > U16Max THEN [ok |-> FALSE, val |-> 0] ELSE [ok |-> TRUE, val |-> n]

\* the size patch, storing the size whatever the outcome of the body
SerPatchEager(self, s) ==
    LET self2 == [self EXCEPT !.header.packet_size = AsU16(s.offset \div SizeOfU32).val]
    IN  IF s.out # Running THEN [ret |-> s.out, packet |-> self2, buffer |-> s.buffer]
        ELSE LET r == Header_serialize(self2.header, s.buffer)
             IN  IF r.ret.kind # "Ok"
                 THEN [ret |-> r.ret, packet |-> self2, buffer |-> s.buffer]
                 ELSE [ret |-> Ok(s.offset), packet |-> self2, buffer |-> r.buf]

SerPatch(self, s) ==
    IF s.out # Running THEN [ret |-> s.out, packet |-> self, buffer |-> s.buffer]
    ELSE LET size == TryIntoU16(s.offset \div SizeOfU32)
         IN  IF ~size.ok
             THEN [ret |-> Err("SizeOverflow"), packet |-> self, buffer |-> s.buffer]
             ELSE LET self2 == [self EXCEPT !.header.packet_size = size.val]
                      r == Header_serialize(self2.header, s.buffer)
                  IN  IF r.ret.kind # "Ok"
                      THEN [ret |-> r.ret, packet |-> self2, buffer |-> s.buffer]
                      ELSE [ret |-> Ok(s.offset), packet |-> self2, buffer |-> r.buf]

serialize(self, buf) ==
    LET s0 == [offset |-> 0, buffer |-> buf, out |-> Running]
        s1 == SerHeader(self, s0)
        s2 == SerStreamId(self, s1)
        s3 == SerClassId(self, s2)
        s4 == SerTsi(self, s3)
        s5 == SerTsf(self, s4)
        s6 == SerPayload(self, s5)
        s7 == SerTrailer(self, s6)
    IN  SerPatch(self, s7)

\* -------------------------------------------------------- VrtPacket::parse
IsHuge(n) == n < 0

\* payload_len -= w: a panic with overflow checks, a wrap without
SubBudget(st, w, checks) ==
    IF ~IsHuge(st.payload_len) /\ st.payload_len < w /\ checks
    THEN [st EXCEPT !.out = Panic]
    ELSE [st EXCEPT !.payload_len = st.payload_len - w]

ExpectedSize(header) == header.packet_size * SizeOfU32

ActualSize(i) == BLen(i) + SizeOfU32

NeededRemaining(expected_size, actual_size) == expected_size - actual_size

NeededBytes(expected_size, actual_size) == expected_size

ParseHeader(i) ==
    LET r == Header_parse(i)
        st == [out |-> Running, i |-> i, header |-> DefaultHeader, payload_len |-> 0,
               stream_id |-> None, class_id |-> None, tsi |-> None, tsf |-> None,
               payload |-> <<>>, trailer |-> None]
    IN  IF r.kind = "Ok" THEN [st EXCEPT !.i = r.rest, !.header = r.val]
        ELSE [st EXCEPT !.out = r]

SizeCheck(st) ==
    IF st.out # Running THEN st
    ELSE LET expected_size == ExpectedSize(st.header)
             actual_size == ActualSize(st.i)
         IN  IF actual_size < expected_size
             THEN [st EXCEPT !.out = Incomplete(NeededBytes(expected_size, actual_size))]
             ELSE [st EXCEPT !.payload_len = expected_size]

\* the budget without the trailer word reserved
BudgetNoTrailer(st, checks) ==
    IF st.out # Running THEN st ELSE SubBudget(st, SizeOfU32, checks)

Budget(st, checks) ==
    IF st.out # Running THEN st
    ELSE LET s1 == SubBudget(st, SizeOfU32, checks)
         IN  IF s1.out = Running /\ s1.header.t
             THEN SubBudget(s1, SizeOfU32, checks)
             ELSE s1

HasStreamId(header) == header.packet_type \in {"IfDataWithStream", "ExtDataWithStream"}

ParseStreamId(st, checks) ==
    IF st.out # Running \/ ~HasStreamId(st.header) THEN st
    ELSE LET r == be_u32(st.i)
         IN  IF r.kind # "Ok" THEN [st EXCEPT !.out = r]
             ELSE SubBudget([st EXCEPT !.i = r.rest, !.stream_id = Some(r.val)],
                            SizeOfU32, checks)

ParseClassId(st, checks) ==
    IF st.out # Running \/ ~st.header.c THEN st
    ELSE LET r == ClassId_parse(st.i)
         IN  IF r.kind # "Ok" THEN [st EXCEPT !.out = r]
             ELSE SubBudget([st EXCEPT !.i = r.rest, !.class_id = Some(r.val)],
                            ClassIdSize, checks)

\* a timestamp of zero taken for an absent one
ParseTsiZeroAbsent(st, checks) ==
    IF st.out # Running \/ st.header.tsi = "None" THEN st
    ELSE LET r == be_u32(st.i)
         IN  IF r.kind # "Ok" THEN [st EXCEPT !.out = r]
             ELSE SubBudget([st EXCEPT !.i = r.rest,
                                       !.tsi = IF r.val = 0 THEN None ELSE Some(r.val)],
                            SizeOfU32, checks)

ParseTsi(st, checks) ==
    IF st.out # Running \/ st.header.tsi = "None" THEN st
    ELSE LET r == be_u32(st.i)
         IN  IF r.kind # "Ok" THEN [st EXCEPT !.out = r]
             ELSE SubBudget([st EXCEPT !.i = r.rest, !.tsi = Some(r.val)],
                            SizeOfU32, checks)

ParseTsf(st, checks) ==
    IF st.out # Running \/ st.header.tsf = "None" THEN st
    ELSE LET r == be_u64(st.i)
         IN  IF r.kind # "Ok" THEN [st EXCEPT !.out = r]
             ELSE SubBudget([st EXCEPT !.i = r.rest, !.tsf = Some(r.val)],
                            SizeOfU64, checks)

\* i.split_at(payload_len): a panic when payload_len > i.len()
SplitPayload(st) ==
    IF st.out # Running THEN st
    ELSE IF IsHuge(st.payload_len) \/ st.payload_len > BLen(st.i)
    THEN [st EXCEPT !.out = Panic]
    ELSE [st EXCEPT !.payload = Take(st.i, st.payload_len),
                    !.i = Drop(st.i, st.payload_len)]

ParseTrailer(st) ==
    IF st.out # Running \/ ~st.header.t THEN st
    ELSE LET r == Trailer_parse(st.i)
         IN  IF r.kind # "Ok" THEN [st EXCEPT !.out = r]
             ELSE [st EXCEPT !.i = r.rest, !.trailer = Some(r.val)]

ParseReturn(st) ==
    IF st.out # Running THEN st.out
    ELSE [kind |-> "Ok", rest |-> st.i,
          packet |-> [header |-> st.header, stream_id |-> st.stream_id,
                      class_id |-> st.class_id, tsi |-> st.tsi, tsf |-> st.tsf,
                      payload |-> st.payload, trailer |-> st.trailer]]

parse(i, checks) ==
    LET s1 == SizeCheck(ParseHeader(i))
        s2 == Budget(s1, checks)
        s3 == ParseStreamId(s2, checks)
        s4 == ParseClassId(s3, checks)
        s5 == ParseTsi(s4, checks)
        s6 == ParseTsf(s5, checks)
        s7 == SplitPayload(s6)
        s8 == ParseTrailer(s7)
    IN  ParseReturn(s8)

\* ------------------------------------------------------------------ inputs
Presences == [s : BOOLEAN, c : BOOLEAN, i : BOOLEAN, f : BOOLEAN, t : BOOLEAN]
NonePresent == [s |-> FALSE, c |-> FALSE, i |-> FALSE, f |-> FALSE, t |-> FALSE]
AllPresent == [s |-> TRUE, c |-> TRUE, i |-> TRUE, f |-> TRUE, t |-> TRUE]

\* the caller's field values: all zero, or every byte different
StreamIdOf(vals) == IF vals = "zero" THEN 0 ELSE 16909060
ClassIdOf(vals) ==
    IF vals = "zero"
    THEN [oui |-> 0, information_class_code |-> 0, packet_class_code |-> 0]
    ELSE [oui |-> 658188, information_class_code |-> 3342, packet_class_code |-> 3856]
TsiOf(vals) == IF vals = "zero" THEN 0 ELSE 286397204
TsfOf(vals) == IF vals = "zero" THEN [hi |-> 0, lo |-> 0]
               ELSE [hi |-> 353768216, lo |-> 421141276]
TrailerOf(vals) == IF vals = "zero" THEN [word |-> 0] ELSE [word |-> 488513312]
OldSizeOf(vals) == IF vals = "zero" THEN 0 ELSE 9

PayloadOf(vals, n) ==
    IF vals = "zero" THEN Fill(n, 0)
    ELSE Cat(FromSeq([k \in 1..(IF n < 8 THEN n ELSE 8) |-> 32 + k]), Fill(n - 8, 127))

\* the header a caller sets: flags agreeing with the populated fields (two
\* choices of kinds), or all clear, or all set
HeaderOf(p, mode, vals) ==
    CASE mode = "agree" ->
           [packet_type |-> IF p.s THEN "IfDataWithStream" ELSE "IfData",
            c |-> p.c, t |-> p.t,
            tsi |-> IF p.i THEN "Utc" ELSE "None",
            tsf |-> IF p.f THEN "RealTime" ELSE "None",
            packet_size |-> OldSizeOf(vals)]
      [] mode = "agree_ext" ->
           [packet_type |-> IF p.s THEN "ExtDataWithStream" ELSE "ExtContext",
            c |-> p.c, t |-> p.t,
            tsi |-> IF p.i THEN "Other" ELSE "None",
            tsf |-> IF p.f THEN "FreeRunning" ELSE "None",
            packet_size |-> OldSizeOf(vals)]
      [] mode = "clear" ->
           [DefaultHeader EXCEPT !.packet_size = OldSizeOf(vals)]
      [] mode = "set" ->
           [packet_type |-> "IfDataWithStream", c |-> TRUE, t |-> TRUE,
            tsi |-> "Gps", tsf |-> "SampleCount", packet_size |-> OldSizeOf(vals)]

MakePacket(p, mode, vals, plen) ==
    [header |-> HeaderOf(p, mode, vals),
     stream_id |-> IF p.s THEN Some(StreamIdOf(vals)) ELSE None,
     class_id |-> IF p.c THEN Some(ClassIdOf(vals)) ELSE None,
     tsi |-> IF p.i THEN Some(TsiOf(vals)) ELSE None,
     tsf |-> IF p.f THEN Some(TsfOf(vals)) ELSE None,
     payload |-> PayloadOf(vals, plen),
     trailer |-> IF p.t THEN Some(TrailerOf(vals)) ELSE None]

\* the bytes serialize needs for a packet
Need(p) ==
    SizeOfU32 + (IF p.stream_id.some THEN SizeOfU32 ELSE 0)
    + (IF p.class_id.some THEN ClassIdSize ELSE 0)
    + (IF p.tsi.some THEN SizeOfU32 ELSE 0)
    + (IF p.tsf.some THEN SizeOfU64 ELSE 0)
    + BLen(p.payload)
    + (IF p.trailer.some THEN SizeOfU32 ELSE 0)

\* payload lengths around the largest packet the size field can describe
LargeLens ==
    {4 * U16Max - 32, 4 * U16Max - 28, 4 * U16Max - 4, 4 * U16Max - 1, 4 * U16Max}

FreshBuffer(n) == Fill(n, 170)

ParseHeaders ==
    [packet_type : {"IfData", "IfDataWithStream", "ExtDataWithStream"},
     c : BOOLEAN, t : BOOLEAN, tsi : {"None", "Utc"}, tsf : {"None", "RealTime"},
     packet_size : 0..MaxWords]

HeaderWords == {HeaderBytes(h) : h \in ParseHeaders} \cup {<<240, 0, 0, 2>>}

BodyOf(pat, n) ==
    IF pat = "zero" THEN Fill(n, 0) ELSE FromSeq([k \in 1..n |-> k])

\* ----------------------------------------------------------------- actions
Init ==
    /\ pc = "start"
    /\ packet = DefaultPacket
    /\ old_packet = DefaultPacket
    /\ buffer = <<>>
    /\ ser_ret = [kind |-> "None"]
    /\ input = <<>>
    /\ parse_ret = [kind |-> "None"]

DoSerialize(self, buf) ==
    LET r == serialize(self, buf)
    IN  /\ old_packet' = self
        /\ packet' = r.packet
        /\ buffer' = r.buffer
        /\ ser_ret' = r.ret
        /\ pc' = "serialized"
        /\ UNCHANGED <<input, parse_ret>>

\* a caller serializes a packet it built into a fresh buffer
Serialize ==
    /\ pc = "start"
    /\ \E p \in Presences, mode \in {"agree", "agree_ext", "clear", "set"},
          vals \in {"zero", "distinct"}, plen \in 0..MaxPayload :
            LET self == MakePacket(p, mode, vals, plen)
            IN  \E blen \in 0..(Need(self) + MaxSlack) :
                    DoSerialize(self, FreshBuffer(blen))

\* the same call on packets at the limit of the size field
SerializeLarge ==
    /\ pc = "start"
    /\ \E p \in {NonePresent, AllPresent}, vals \in {"zero", "distinct"},
          plen \in LargeLens, d \in {-1, 0, 8} :
            LET self == MakePacket(p, "agree", vals, plen)
            IN  DoSerialize(self, FreshBuffer(Need(self) + d))

DoParse(i, next) ==
    /\ \E checks \in BOOLEAN : parse_ret' = parse(i, checks)
    /\ input' = i
    /\ pc' = next
    /\ UNCHANGED <<packet, old_packet, buffer, ser_ret>>

\* a caller parses bytes received from the wire
ParseInput ==
    /\ pc = "start"
    /\ \E w \in HeaderWords, pat \in {"zero", "tagged"}, len \in 0..MaxIn :
            DoParse(Take(Cat(FromSeq(w), BodyOf(pat, MaxIn)), len), "parsed")

\* a caller parses the bytes serialize reported written
ParseWritten ==
    /\ pc = "serialized"
    /\ ser_ret.kind = "Ok"
    /\ DoParse(Take(buffer, ser_ret.n), "decoded")

\* a caller parses the bytes the last parse left over
ParseRest ==
    /\ pc \in {"parsed", "decoded", "parsed_rest"}
    /\ parse_ret.kind = "Ok"
    /\ parse_ret.rest # <<>>
    /\ DoParse(parse_ret.rest, "parsed_rest")

Next == Serialize \/ SerializeLarge \/ ParseInput \/ ParseWritten \/ ParseRest

Spec == Init /\ [][Next]_vars

\* ------------------------------------------------------------- properties
\* the wire form of a 32-bit value, most significant byte first
WireU32(v) == [k \in 1..4 |-> (v \div (256 ^ (4 - k))) % 256]

\* the 32-bit value at byte offset off of a slice
ReadU32(s, off) ==
    LET b == ToSeq(Slice(s, off, off + 4))
    IN  ((b[1] * 256 + b[2]) * 256 + b[3]) * 256 + b[4]

\* the widths of the optional fields a header declares
StreamW(h) == IF h.packet_type \in {"IfDataWithStream", "ExtDataWithStream"} THEN 4 ELSE 0
ClassW(h) == IF h.c THEN 8 ELSE 0
TsiW(h) == IF h.tsi # "None" THEN 4 ELSE 0
TsfW(h) == IF h.tsf # "None" THEN 8 ELSE 0
TrailerW(h) == IF h.t THEN 4 ELSE 0
DeclaredWidth(h) == 4 + StreamW(h) + ClassW(h) + TsiW(h) + TsfW(h) + TrailerW(h)

\* the header flags agree with the populated optional fields
Consistent(p) ==
    /\ p.stream_id.some <=> (StreamW(p.header) > 0)
    /\ p.class_id.some <=> p.header.c
    /\ p.tsi.some <=> (p.header.tsi # "None")
    /\ p.tsf.some <=> (p.header.tsf # "None")
    /\ p.trailer.some <=> p.header.t

\* the fields of a packet as they lie on the wire, in order, absent ones left out
WireFields(p) ==
    <<FromSeq(HeaderBytes(p.header)),
      IF p.stream_id.some THEN FromSeq(WireU32(p.stream_id.val)) ELSE <<>>,
      IF p.class_id.some THEN FromSeq(ClassIdBytes(p.class_id.val)) ELSE <<>>,
      IF p.tsi.some THEN FromSeq(WireU32(p.tsi.val)) ELSE <<>>,
      IF p.tsf.some THEN FromSeq(WireU32(p.tsf.val.hi) \o WireU32(p.tsf.val.lo)) ELSE <<>>,
      p.payload,
      IF p.trailer.some THEN FromSeq(WireU32(p.trailer.val.word)) ELSE <<>>>>

RECURSIVE CatAll(_)
CatAll(fs) == IF fs = <<>> THEN <<>> ELSE Cat(Head(fs), CatAll(Tail(fs)))

ExpectedWire(p) == CatAll(WireFields(p))

\* the leading fields of fs that fit, one after the other, in room bytes
RECURSIVE FittingFields(_, _)
FittingFields(fs, room) ==
    IF fs = <<>> \/ BLen(Head(fs)) > room THEN <<>>
    ELSE <<Head(fs)>> \o FittingFields(Tail(fs), room - BLen(Head(fs)))

Serialized == ser_ret.kind # "None"
Parsed == parse_ret.kind # "None"
HeaderParses == Header_parse(input).kind = "Ok"
InHeader == Header_parse(input).val
Declared == InHeader.packet_size * 4

\* C1 (as claimed): a packet whose flags agree with its populated fields, once
\* serialized and parsed back from the written bytes, is returned equal to the
\* packet (size as set by serialize) with no bytes left over, for any payload.
CE_C1_RoundTrip ==
    (pc = "decoded" /\ Consistent(old_packet))
        => /\ parse_ret.kind = "Ok"
           /\ parse_ret.packet = packet
           /\ parse_ret.rest = <<>>

\* C2 (as claimed): whenever serialize returns Ok(n), the stored packet_size and
\* the size field of the header word at offset 0 both satisfy size * 4 = n.
CE_C2_SizeInvariant ==
    (Serialized /\ ser_ret.kind = "Ok")
        => /\ packet.header.packet_size * 4 = ser_ret.n
           /\ Header_parse(buffer).val.packet_size * 4 = ser_ret.n

\* C3: an input whose header parses and declares packet_size = S, and that is
\* shorter than S * 4 bytes, parses to Incomplete carrying S * 4.
Thm_C3_Incomplete ==
    (Parsed /\ HeaderParses /\ BLen(input) < Declared)
        => /\ parse_ret.kind = "Incomplete"
           /\ parse_ret.needed = Declared

Wit_C3_Incomplete ==
    /\ Parsed /\ HeaderParses
    /\ InHeader.packet_size >= 2
    /\ BLen(input) = Declared - 1
    /\ parse_ret.kind = "Incomplete"

\* C4 (as claimed): a complete input whose header declares a size smaller than
\* the header word plus the fields its flags declare parses to an explicit
\* malformed-packet error.
CE_C4_Malformed ==
    (Parsed /\ HeaderParses /\ BLen(input) >= Declared
            /\ Declared < DeclaredWidth(InHeader))
        => /\ parse_ret.kind = "Err"
           /\ parse_ret.error = "Malformed"

\* what C5 says of a successful parse: the payload lies right after the last
\* optional field, the trailer is the last word of the packet, the remainder
\* is the input from offset packet_size * 4 on
OnePacketDecoded ==
    LET h == InHeader
        front == 4 + StreamW(h) + ClassW(h) + TsiW(h) + TsfW(h)
    IN  /\ parse_ret.kind = "Ok"
        /\ BLen(parse_ret.packet.payload) = Declared - DeclaredWidth(h)
        /\ parse_ret.packet.payload = Slice(input, front, Declared - TrailerW(h))
        /\ h.t => /\ parse_ret.packet.trailer.some
                  /\ parse_ret.packet.trailer.val.word = ReadU32(input, Declared - 4)
        /\ parse_ret.rest = Drop(input, Declared)

\* C5 (as claimed): any input of at least packet_size * 4 bytes whose header
\* parses is decoded successfully as exactly one packet.
CE_C5_OnePacket ==
    (Parsed /\ HeaderParses /\ BLen(input) >= Declared) => OnePacketDecoded

\* C5 (amended): any input of at least packet_size * 4 bytes whose header parses
\* and whose packet_size * 4 is at least the header word plus the widths of the
\* fields the flags declare is decoded successfully as exactly one packet.
Thm_C5_OnePacket ==
    (Parsed /\ HeaderParses /\ BLen(input) >= Declared
            /\ Declared >= DeclaredWidth(InHeader))
        => OnePacketDecoded

Wit_C5_OnePacket ==
    /\ Parsed /\ HeaderParses
    /\ InHeader.t /\ InHeader.c
    /\ Declared > DeclaredWidth(InHeader)
    /\ BLen(input) > Declared + 4
    /\ parse_ret.kind = "Ok"
    /\ parse_ret.rest # <<>>

\* C6: serialize into a buffer shorter than the packet needs returns
\* BufferFull having written the leading fields that fit and nothing after
\* them; it never indexes past the end; with a buffer long enough it does not
\* return BufferFull.
Thm_C6_BufferFull ==
    Serialized =>
        LET need == Need(old_packet)
            len == BLen(buffer)
            fit == CatAll(FittingFields(WireFields(old_packet), len))
        IN  /\ ser_ret.kind # "Panic"
            /\ len < need =>
                  /\ ser_ret.kind = "Err"
                  /\ ser_ret.error = "BufferFull"
                  /\ buffer = Cat(fit, FreshBuffer(len - BLen(fit)))
            /\ len >= need =>
                  ~(ser_ret.kind = "Err" /\ ser_ret.error = "BufferFull")

Wit_C6_BufferFull ==
    /\ Serialized
    /\ old_packet.stream_id.some /\ old_packet.tsf.some
    /\ BLen(old_packet.payload) > 0
    /\ BLen(buffer) = Need(old_packet) - 1
    /\ ser_ret.kind = "Err"

\* C7: when the bytes written divided by 4 exceed the 16-bit size field,
\* serialize returns an error, and neither the packet nor the header word in
\* the buffer holds a truncated size: both keep the size the caller had set.
Thm_C7_SizeOverflow ==
    (Serialized /\ Need(old_packet) \div 4 > U16Max)
        => /\ ser_ret.kind = "Err"
           /\ packet.header.packet_size = old_packet.header.packet_size
           /\ BLen(buffer) >= 4 =>
                 Header_parse(buffer).val.packet_size = old_packet.header.packet_size

Wit_C7_SizeOverflow ==
    /\ Serialized
    /\ Need(old_packet) \div 4 > U16Max
    /\ BLen(buffer) >= Need(old_packet)
    /\ old_packet.header.packet_size # (Need(old_packet) \div 4) % (U16Max + 1)
    /\ ser_ret.kind = "Err"
    /\ ser_ret.error = "SizeOverflow"

\* C8: on success the buffer holds, from offset 0 and in this order, the header
\* (with the new size), stream id, class id, tsi, tsf, payload and trailer, each
\* optional field present exactly when the packet's Option is Some whatever the
\* header flags say; the count returned is the sum of their widths; the bytes
\* after them are untouched.
Thm_C8_Layout ==
    (Serialized /\ ser_ret.kind = "Ok")
        => /\ ser_ret.n = Need(old_packet)
           /\ ser_ret.n = BLen(ExpectedWire(packet))
           /\ Take(buffer, ser_ret.n) = ExpectedWire(packet)
           /\ Drop(buffer, ser_ret.n) = FreshBuffer(BLen(buffer) - ser_ret.n)

Wit_C8_Layout ==
    /\ Serialized /\ ser_ret.kind = "Ok"
    /\ ~Consistent(old_packet)
    /\ old_packet.stream_id.some /\ old_packet.tsi.some /\ old_packet.trailer.some
    /\ old_packet.tsi.val # 0
    /\ BLen(old_packet.payload) > 0
    /\ BLen(buffer) > ser_ret.n

\* C9: in every successful parse each optional field is present exactly when
\* the header declares it, the present ones are read from consecutive
\* positions in the order stream id, class id, tsi, tsf, and a field that is
\* zero on the wire is Some(0).
Thm_C9_Presence ==
    (Parsed /\ parse_ret.kind = "Ok")
        => LET p == parse_ret.packet
               h == InHeader
               at_class == 4 + StreamW(h)
               at_tsi == at_class + ClassW(h)
               at_tsf == at_tsi + TsiW(h)
           IN  /\ p.header = h
               /\ p.stream_id = IF StreamW(h) > 0 THEN Some(ReadU32(input, 4)) ELSE None
               /\ p.class_id.some <=> h.c
               /\ h.c => p.class_id.val = ClassId_parse(Drop(input, at_class)).val
               /\ p.tsi = IF TsiW(h) > 0 THEN Some(ReadU32(input, at_tsi)) ELSE None
               /\ p.tsf = IF TsfW(h) > 0
                          THEN Some([hi |-> ReadU32(input, at_tsf),
                                     lo |-> ReadU32(input, at_tsf + 4)])
                          ELSE None
               /\ p.trailer.some <=> h.t

Wit_C9_Presence ==
    /\ Parsed /\ parse_ret.kind = "Ok"
    /\ ~parse_ret.packet.stream_id.some
    /\ parse_ret.packet.class_id.some
    /\ parse_ret.packet.tsi = Some(0)
    /\ parse_ret.packet.tsf.some
    /\ BLen(parse_ret.packet.payload) > 0

\* C10: serialize changes no field of the packet but header.packet_size, and
\* when it returns an error header.packet_size is unchanged too.
Thm_C10_Frame ==
    Serialized =>
        /\ [packet EXCEPT !.header.packet_size = old_packet.header.packet_size] = old_packet
        /\ ser_ret.kind # "Ok" => packet = old_packet

Wit_C10_Frame ==
    /\ Serialized
    /\ ser_ret.kind = "Err"
    /\ old_packet.class_id.some
    /\ BLen(buffer) >= 4
    /\ old_packet.header.packet_size # BLen(buffer) \div 4

====
